---- MODULE Spec2Model ----
(***************************************************************************)
(* Model of the structure registry, the global extent and the pick         *)
(* selection of polyscope (src/src/polyscope.cpp).                         *)
(*                                                                         *)
(* Lengths are kept in ticks of 1/2 length unit, so that the midpoint of   *)
(* a box with integral corners is exact; a length scale is kept as its     *)
(* square (in ticks^2), so that the norm of a diagonal is exact.  Both     *)
(* encodings preserve order, max, and comparison with 0.                   *)
(***************************************************************************)
EXTENDS Integers, FiniteSets, Sequences, TLC

\* ------------------------------------------------------------------ bounds
\* Number of structures that may be allocated (not yet deleted) at a time.
MaxLive == 2
\* Width of the range of pick indices set aside for one structure.
MaxElems == 2

Names == {"a", "b"}
Ptrs == 1 .. MaxLive
NullPtr == 0

\* enum class StructureType, in the order in which removeStructure tries them
StructureTypes == {"PointCloud", "SurfaceMesh", "CameraView", "RaySet"}

\* ------------------------------------------------------------------ vectors
Vec(x, y, z) == <<x, y, z>>
VAdd(u, v) == <<u[1] + v[1], u[2] + v[2], u[3] + v[3]>>
VSub(u, v) == <<u[1] - v[1], u[2] - v[2], u[3] - v[3]>>
VNeg(u) == <<0 - u[1], 0 - u[2], 0 - u[3]>>
VHalf(u) == <<u[1] \div 2, u[2] \div 2, u[3] \div 2>>
Min2(a, b) == IF a < b THEN a ELSE b
Max2(a, b) == IF a > b THEN a ELSE b
componentwiseMin(u, v) == <<Min2(u[1], v[1]), Min2(u[2], v[2]), Min2(u[3], v[3])>>
componentwiseMax(u, v) == <<Max2(u[1], v[1]), Max2(u[2], v[2]), Max2(u[3], v[3])>>
\* square of norm(v)
norm2(v) == v[1] * v[1] + v[2] * v[2] + v[3] * v[3]

\* std::numeric_limits<double>::infinity(): larger than every coordinate
Infinity == 1000
isFinite(v) == \A i \in 1 .. 3 : v[i] > 0 - Infinity /\ v[i] < Infinity
\* Vector3{1, 1, 1}, in ticks
Ones == Vec(2, 2, 2)
InfVec == Vec(Infinity, Infinity, Infinity)
Zero3 == Vec(0, 0, 0)

\* --------------------------------------------------------- structure payloads
\* What a caller hands to register: the geometry, seen through the two
\* capabilities the registry uses, boundingBox() and lengthScale().
\* BoxA is [0,0,0]-[1,1,1], BoxB is [2,2,2]-[3,3,3]; the first structure
\* reports length scale 0 and has one pickable element, the second reports
\* 1.5 and has two.
BoxA == <<Vec(0, 0, 0), Vec(2, 2, 2)>>
BoxB == <<Vec(4, 4, 4), Vec(6, 6, 6)>>
Payloads ==
  { [bbox |-> BoxA, ls |-> 0, elems |-> 1],
    [bbox |-> BoxB, ls |-> 9, elems |-> 2] }

\* ------------------------------------------------------------ partial maps
\* std::map as a function whose DOMAIN is the set of keys.
EmptyMap == [k \in {} |-> NullPtr]
Has(m, k) == k \in DOMAIN m
Put(m, k, v) == [x \in DOMAIN m \cup {k} |-> IF x = k THEN v ELSE m[x]]
Erase(m, k) == [x \in DOMAIN m \ {k} |-> m[x]]
\* operator[] on a map of maps: a missing key is created with an empty map.
\* No loop or lookup of the file tells a category that is missing from
\* state::structureCategories from one whose map is empty, so the category map
\* is kept total, a cleared category map being four empty maps.
Sub(m, k) == IF Has(m, k) THEN m[k] ELSE EmptyMap

VARIABLES
  state,    \* namespace state: the registry maps and the global extent
  options,  \* namespace options: exceptionOnError
  pick,     \* namespace pick: haveSelection and the selected structure / index
  heap,     \* the structures allocated with new and not yet deleted, by address;
            \* the name and the category of a structure are those of the map
            \* entry that holds it
  lastOp,   \* the operation that ran last, its arguments and what it signalled
  initialized, \* state::initialized
  window,   \* the framebuffer size of the GLFW window, <<width, height>>
  view,     \* view::bufferWidth, view::bufferHeight
  pickBuffer,  \* currPickBufferWidth, currPickBufferHeight
  dragDistSinceLastRelease, \* in ticks of .005 of the window size
  io,       \* ImGuiIO: whether the left button was down in the last frame
  userCallback,   \* whether state::userCallback holds a function
  screenshotInd,  \* state::screenshotInd
  files     \* the names of the image files saveImage has written

\* what the registry operations leave alone
windowVars ==
  <<initialized, window, view, pickBuffer, dragDistSinceLastRelease, io, userCallback,
    screenshotInd, files>>
vars ==
  <<state, options, pick, heap, lastOp, initialized, window, view, pickBuffer,
    dragDistSinceLastRelease, io, userCallback, screenshotInd, files>>

\* ------------------------------------------------------------------ pick
\* The colour codec of pick.h: an index is written in radix PickRadix over the
\* three channels, low digit first; a channel holds digit / PickRadix, kept
\* here as the digit.
PickRadix == 3
\* the indices the three channels can hold
Representable(ind) == 0 <= ind /\ ind < PickRadix * PickRadix * PickRadix
\* (mutant) the third channel is not written
indToVec_twoChannels(ind) ==
  Vec(ind % PickRadix, (ind \div PickRadix) % PickRadix, 0)
indToVec(ind) ==
  Vec(ind % PickRadix, (ind \div PickRadix) % PickRadix,
      (ind \div (PickRadix * PickRadix)) % PickRadix)
vecToInd(v) == v[1] + PickRadix * v[2] + PickRadix * PickRadix * v[3]

\* The range of global pick indices a structure claims: one positive index
\* per element, consecutive; 0 is never claimed.
pickStart(p) == (p - 1) * MaxElems + 1
pickRange(hp, p) == pickStart(p) .. (pickStart(p) + hp[p].elems - 1)
pickOwner(ind) == ((ind - 1) \div MaxElems) + 1

NoSelection == [haveSelection |-> FALSE, structure |-> NullPtr, ind |-> 0]

\* pick::resetPick
resetPick(pk) == NoSelection

\* pick::setCurrentPickElement: the global index is resolved to its owner and
\* the local index within the owner's range; an index nobody owns selects
\* nothing.
setCurrentPickElement(pk, hp, ind, doubleClick) ==
  IF pickOwner(ind) \in DOMAIN hp /\ ind \in pickRange(hp, pickOwner(ind))
    THEN [haveSelection |-> TRUE, structure |-> pickOwner(ind),
          ind |-> ind - pickStart(pickOwner(ind))]
    ELSE NoSelection

\* pick::clearPickIfStructureSelected
clearPickIfStructureSelected(pk, s) ==
  IF pk.haveSelection /\ pk.structure = s THEN resetPick(pk) ELSE pk

\* pick::getCurrentPickElement
getCurrentPickElement(pk) == [structure |-> pk.structure, pickInd |-> pk.ind]

\* ------------------------------------------------------------------ errors
\* error(message): throws when options::exceptionOnError, else prints.
\* The outcome of a call is [errs, thrown]: the messages signalled and whether
\* the last of them left the function by an exception.
error(message) == [errs |-> <<message>>, thrown |-> options.exceptionOnError]
NoError == [errs |-> <<>>, thrown |-> FALSE]

\* ------------------------------------------------------------------ extent
\* The pointers the loops over state::structureCategories visit.
CategoryPtrs(st) ==
  UNION { { st.structureCategories[c][n] : n \in DOMAIN st.structureCategories[c] } :
            c \in DOMAIN st.structureCategories }

RECURSIVE FoldExtents(_, _, _)
\* one round of the double loop of updateStructureExtents per structure
FoldExtents(ps, hp, acc) ==
  IF ps = {} THEN acc
  ELSE LET p == CHOOSE q \in ps : TRUE
           x == hp[p]
       IN FoldExtents(ps \ {p}, hp,
            [lengthScale |-> Max2(acc.lengthScale, x.ls),
             minBbox |-> componentwiseMin(acc.minBbox, x.bbox[1]),
             maxBbox |-> componentwiseMax(acc.maxBbox, x.bbox[2])])

\* (mutant) no correction of a box that is not finite
updateStructureExtents_noUnitBox(st, hp) ==
  LET folded == FoldExtents(CategoryPtrs(st) \cap DOMAIN hp, hp,
                  [lengthScale |-> 0, minBbox |-> InfVec, maxBbox |-> VNeg(InfVec)])
  IN [st EXCEPT
        !.boundingBox = <<folded.minBbox, folded.maxBbox>>,
        !.lengthScale = IF folded.lengthScale = 0
                          THEN norm2(VSub(folded.maxBbox, folded.minBbox))
                          ELSE folded.lengthScale,
        !.center = VHalf(VAdd(folded.minBbox, folded.maxBbox))]

\* The loop dereferences every pointer of the category map; the map never
\* holds a destroyed structure when an operation starts or ends, so the
\* intersection with the allocated structures drops nothing.
updateStructureExtents(st, hp) ==
  LET folded == FoldExtents(CategoryPtrs(st) \cap DOMAIN hp, hp,
                  [lengthScale |-> 0, minBbox |-> InfVec, maxBbox |-> VNeg(InfVec)])
      finite == isFinite(folded.minBbox) /\ isFinite(folded.maxBbox)
      minBbox == IF finite THEN folded.minBbox ELSE VNeg(Ones)
      maxBbox == IF finite THEN folded.maxBbox ELSE Ones
  IN [st EXCEPT
        !.boundingBox = <<minBbox, maxBbox>>,
        !.lengthScale = IF folded.lengthScale = 0
                          THEN norm2(VSub(maxBbox, minBbox))
                          ELSE folded.lengthScale,
        !.center = VHalf(VAdd(minBbox, maxBbox))]

\* ------------------------------------------------------------------ registry
\* the typed map of a category
TypedField(cat) ==
  CASE cat = "PointCloud" -> "pointClouds"
    [] cat = "SurfaceMesh" -> "surfaceMeshes"
    [] cat = "CameraView" -> "cameraViews"
    [] cat = "RaySet" -> "raySets"

\* (mutant) looks the name up in the first category only
checkStructureNameInUse_firstCategoryOnly(st, name, throwError) ==
  IF Has(st.structureCategories["PointCloud"], name)
    THEN [inUse |-> TRUE, err |-> IF throwError THEN error("nameInUse") ELSE NoError]
    ELSE [inUse |-> FALSE, err |-> NoError]

checkStructureNameInUse(st, name, throwError) ==
  IF \E c \in DOMAIN st.structureCategories : Has(st.structureCategories[c], name)
    THEN [inUse |-> TRUE, err |-> IF throwError THEN error("nameInUse") ELSE NoError]
    ELSE [inUse |-> FALSE, err |-> NoError]

\* One branch of removeStructure: the name was found in the typed map of cat.
removeFound(w, cat, name) ==
  LET f == TypedField(cat)
      p == w.state[f][name]
      st1 == [w.state EXCEPT
                ![f] = Erase(@, name),
                !.structureCategories = Put(@, cat, Erase(Sub(@, cat), name))]
      hp1 == Erase(w.heap, p)
  IN [w |-> [state |-> updateStructureExtents(st1, hp1),
             pick |-> clearPickIfStructureSelected(w.pick, p),
             heap |-> hp1],
      err |-> NoError,
      deleted |-> {p},
      cleared |-> w.pick.haveSelection /\ w.pick.structure = p]

\* (mutant) a name that is not found is ignored silently
removeStructure_silentWhenMissing(w, name) ==
  IF Has(w.state.pointClouds, name) THEN removeFound(w, "PointCloud", name)
  ELSE IF Has(w.state.surfaceMeshes, name) THEN removeFound(w, "SurfaceMesh", name)
  ELSE IF Has(w.state.cameraViews, name) THEN removeFound(w, "CameraView", name)
  ELSE IF Has(w.state.raySets, name) THEN removeFound(w, "RaySet", name)
  ELSE [w |-> w, err |-> NoError, deleted |-> {}, cleared |-> FALSE]

removeStructure(w, name) ==
  IF Has(w.state.pointClouds, name) THEN removeFound(w, "PointCloud", name)
  ELSE IF Has(w.state.surfaceMeshes, name) THEN removeFound(w, "SurfaceMesh", name)
  ELSE IF Has(w.state.cameraViews, name) THEN removeFound(w, "CameraView", name)
  ELSE IF Has(w.state.raySets, name) THEN removeFound(w, "RaySet", name)
  ELSE [w |-> w, err |-> error("noStructureToRemove"), deleted |-> {}, cleared |-> FALSE]

\* operator new: the allocator hands out a free address; which one is not
\* observable, the lowest free one is taken.
newPtr(hp) ==
  IF Ptrs \ DOMAIN hp = {} THEN NullPtr
  ELSE CHOOSE p \in Ptrs \ DOMAIN hp : \A q \in Ptrs \ DOMAIN hp : p <= q

\* registerPointCloud / registerSurfaceMesh / registerCameraView /
\* registerRaySet: the four functions differ only in the category.
registerStructure(w, cat, name, payload, replaceIfPresent) ==
  LET chk == checkStructureNameInUse(w.state, name, ~replaceIfPresent)
      rem == IF chk.inUse /\ ~chk.err.thrown
               THEN removeStructure(w, name)
               ELSE [w |-> w, err |-> NoError, deleted |-> {}, cleared |-> FALSE]
      errs == chk.err.errs \o rem.err.errs
      f == TypedField(cat)
      p == newPtr(rem.w.heap)
      hp1 == Put(rem.w.heap, p,
                 [bbox |-> payload.bbox, ls |-> payload.ls, elems |-> payload.elems])
      st1 == [rem.w.state EXCEPT ![f] = Put(@, name, p)]
      st2 == [st1 EXCEPT
                !.structureCategories = Put(@, cat, Put(Sub(@, cat), name, st1[f][name]))]
  IN IF chk.err.thrown \/ rem.err.thrown
       THEN [w |-> rem.w, inUse |-> chk.inUse, errs |-> errs, thrown |-> TRUE,
             deleted |-> rem.deleted, cleared |-> rem.cleared, created |-> NullPtr]
       ELSE [w |-> [state |-> updateStructureExtents(st2, hp1),
                    pick |-> rem.w.pick,
                    heap |-> hp1],
             inUse |-> chk.inUse, errs |-> errs, thrown |-> FALSE,
             deleted |-> rem.deleted, cleared |-> rem.cleared, created |-> p]

\* getPointCloud / getSurfaceMesh / getCameraView / getRaySet
getStructure(st, cat, name) ==
  IF ~Has(st[TypedField(cat)], name)
    THEN [ret |-> NullPtr, err |-> error("notRegistered")]
    ELSE [ret |-> st[TypedField(cat)][name], err |-> NoError]

Values(m) == { m[k] : k \in DOMAIN m }

removeAllStructures(w) ==
  LET dels == Values(w.state.pointClouds) \cup Values(w.state.surfaceMeshes)
      hp1 == [p \in DOMAIN w.heap \ dels |-> w.heap[p]]
      st1 == [w.state EXCEPT
                !.pointClouds = EmptyMap,
                !.surfaceMeshes = EmptyMap,
                !.structureCategories = [c \in StructureTypes |-> EmptyMap]]
  IN [w |-> [state |-> updateStructureExtents(st1, hp1),
             pick |-> resetPick(w.pick),
             heap |-> hp1],
      deleted |-> dels]

\* ------------------------------------------------------ statement by statement
\* The worlds one branch of removeStructure goes through, one per statement:
\* clearPickIfStructureSelected, delete, the two erase, updateStructureExtents.
removeFoundSteps(w, cat, name) ==
  LET f == TypedField(cat)
      p == w.state[f][name]
      w1 == [w EXCEPT !.pick = clearPickIfStructureSelected(w.pick, p)]
      w2 == [w1 EXCEPT !.heap = Erase(w1.heap, p)]
      w3 == [w2 EXCEPT !.state[f] = Erase(@, name)]
      w4 == [w3 EXCEPT !.state.structureCategories = Put(@, cat, Erase(Sub(@, cat), name))]
      w5 == [w4 EXCEPT !.state = updateStructureExtents(w4.state, w4.heap)]
  IN <<w1, w2, w3, w4, w5>>

removeStructureSteps(w, name) ==
  IF Has(w.state.pointClouds, name) THEN removeFoundSteps(w, "PointCloud", name)
  ELSE IF Has(w.state.surfaceMeshes, name) THEN removeFoundSteps(w, "SurfaceMesh", name)
  ELSE IF Has(w.state.cameraViews, name) THEN removeFoundSteps(w, "CameraView", name)
  ELSE IF Has(w.state.raySets, name) THEN removeFoundSteps(w, "RaySet", name)
  ELSE <<w>>

\* The worlds removeAllStructures goes through: the two delete loops, the
\* three clear, updateStructureExtents, resetPick.
removeAllStructuresSteps(w) ==
  LET w1 == [w EXCEPT !.heap = [p \in DOMAIN w.heap \ Values(w.state.pointClouds) |-> w.heap[p]]]
      w2 == [w1 EXCEPT !.heap = [p \in DOMAIN w1.heap \ Values(w.state.surfaceMeshes) |-> w1.heap[p]]]
      w3 == [w2 EXCEPT !.state.pointClouds = EmptyMap]
      w4 == [w3 EXCEPT !.state.surfaceMeshes = EmptyMap]
      w5 == [w4 EXCEPT !.state.structureCategories = [c \in StructureTypes |-> EmptyMap]]
      w6 == [w5 EXCEPT !.state = updateStructureExtents(w5.state, w5.heap)]
      w7 == [w6 EXCEPT !.pick = resetPick(w6.pick)]
  IN <<w1, w2, w3, w4, w5, w6, w7>>

\* ------------------------------------------------------------------ picking
\* What glReadPixels can return: the cleared colour, or the colour some
\* structure visited by the drawPick loop wrote for one of its elements.
DrawnPixels(st, hp) ==
  {Zero3} \cup
    { indToVec(i) : i \in UNION { pickRange(hp, p) : p \in CategoryPtrs(st) \cap DOMAIN hp } }

\* (mutant) a read-back of index 0 leaves the selection as it is
evaluatePickQuery_noReset(w, result, doubleClick) ==
  LET ind == vecToInd(result)
  IN [w |-> [w EXCEPT !.pick = IF ind = 0
                                 THEN w.pick
                                 ELSE setCurrentPickElement(w.pick, w.heap, ind, doubleClick)],
      ind |-> ind,
      call |-> IF ind = 0 THEN "resetPick" ELSE "setCurrentPickElement"]

\* evaluatePickQuery, from the read-back on
evaluatePickQuery(w, result, doubleClick) ==
  LET ind == vecToInd(result)
  IN [w |-> [w EXCEPT !.pick = IF ind = 0
                                 THEN resetPick(w.pick)
                                 ELSE setCurrentPickElement(w.pick, w.heap, ind, doubleClick)],
      ind |-> ind,
      call |-> IF ind = 0 THEN "resetPick" ELSE "setCurrentPickElement"]

\* buildPickGui: the structure it dereferences, when there is a selection
buildPickGui(pk, hp) ==
  IF pk.haveSelection
    THEN [shown |-> TRUE, structure |-> getCurrentPickElement(pk).structure,
          dangling |-> getCurrentPickElement(pk).structure \notin DOMAIN hp]
    ELSE [shown |-> FALSE, structure |-> NullPtr, dangling |-> FALSE]

\* ------------------------------------------------------------------ window
\* The framebuffer sizes glfwGetFramebufferSize reports: that of the window
\* glfwCreateWindow(1280, 720) opens, and two the user can resize it to.
InitialSize == <<1280, 720>>
ViewportSizes == {InitialSize, <<640, 720>>, <<640, 360>>}
\* no window yet
NoSize == <<0, 0>>

\* allocatePickRenderbuffers: storage of the size of the viewport, and the
\* size is remembered
allocatePickRenderbuffers(vw) ==
  [currPickBufferWidth |-> vw.bufferWidth, currPickBufferHeight |-> vw.bufferHeight]

\* init(): a second call throws std::logic_error itself, whatever
\* options::exceptionOnError is; the first call opens the window, reads its
\* size, allocates the pick buffer and sets state::initialized.
init(wasInitialized, wd, vw, pb, size) ==
  IF wasInitialized
    THEN [initialized |-> TRUE, window |-> wd, view |-> vw, pickBuffer |-> pb,
          errs |-> <<"initializeCalledTwice">>, thrown |-> TRUE]
    ELSE LET vw1 == [bufferWidth |-> size[1], bufferHeight |-> size[2]]
         IN [initialized |-> TRUE, window |-> size, view |-> vw1,
             pickBuffer |-> allocatePickRenderbuffers(vw1),
             errs |-> <<>>, thrown |-> FALSE]

\* ------------------------------------------------------------------ mouse
\* The click threshold .01 of processMouseEvents; drag distances are counted
\* in ticks of .005 of the window size.
ClickThreshold == 2
\* the largest |dx| + |dy| of one frame, and the largest accumulated distance
MaxDelta == 2
MaxDrag == 3
\* mouse positions, and the values of io.DisplayFramebufferScale
Positions == {<<1, 1>>, <<3, 2>>}
FramebufferScales == {1, 2}
NoPos == <<0, 0>>

\* (mutant) only the width is compared
pickRenderbuffersFor_widthOnly(pb, vw) ==
  IF pb.currPickBufferWidth # vw.bufferWidth
    THEN [pickBuffer |-> allocatePickRenderbuffers(vw), reallocated |-> TRUE]
    ELSE [pickBuffer |-> pb, reallocated |-> FALSE]

\* evaluatePickQuery, up to the read-back: the renderbuffers are deleted and
\* allocated again when the remembered size is not that of the viewport.
pickRenderbuffersFor(pb, vw) ==
  IF pb.currPickBufferWidth # vw.bufferWidth \/ pb.currPickBufferHeight # vw.bufferHeight
    THEN [pickBuffer |-> allocatePickRenderbuffers(vw), reallocated |-> TRUE]
    ELSE [pickBuffer |-> pb, reallocated |-> FALSE]

\* what processMouseEvents does when it does nothing
MouseIdle(w, dist, pb) ==
  [w |-> w, dist |-> dist, pickBuffer |-> pb, dragged |-> FALSE, picked |-> FALSE,
   at |-> NoPos, reallocated |-> FALSE]

\* (mutant) the mouse is handled also when ImGui wants it
processMouseEvents_ignoringCapture(w, dist, pb, vw, inp) ==
  IF inp.IsMouseDragging
    THEN [MouseIdle(w, dist, pb) EXCEPT !.dist = dist + inp.delta, !.dragged = TRUE]
  ELSE IF inp.IsMouseReleased
    THEN IF dist < ClickThreshold
           THEN LET rb == pickRenderbuffersFor(pb, vw)
                    q == evaluatePickQuery(w, inp.result, inp.doubleClick)
                IN [w |-> q.w, dist |-> 0, pickBuffer |-> rb.pickBuffer,
                    dragged |-> FALSE, picked |-> TRUE,
                    at |-> <<inp.scale * inp.pos[1], inp.scale * inp.pos[2]>>,
                    reallocated |-> rb.reallocated]
           ELSE [MouseIdle(w, dist, pb) EXCEPT !.dist = 0]
  ELSE MouseIdle(w, dist, pb)

\* processMouseEvents. inp holds what ImGui reports in this frame and what
\* glReadPixels would return.
processMouseEvents(w, dist, pb, vw, inp) ==
  IF inp.WantCaptureMouse THEN MouseIdle(w, dist, pb)
  ELSE IF inp.IsMouseDragging
    THEN [MouseIdle(w, dist, pb) EXCEPT !.dist = dist + inp.delta, !.dragged = TRUE]
  ELSE IF inp.IsMouseReleased
    THEN IF dist < ClickThreshold
           THEN LET rb == pickRenderbuffersFor(pb, vw)
                    q == evaluatePickQuery(w, inp.result, inp.doubleClick)
                IN [w |-> q.w, dist |-> 0, pickBuffer |-> rb.pickBuffer,
                    dragged |-> FALSE, picked |-> TRUE,
                    at |-> <<inp.scale * inp.pos[1], inp.scale * inp.pos[2]>>,
                    reallocated |-> rb.reallocated]
           ELSE [MouseIdle(w, dist, pb) EXCEPT !.dist = 0]
  ELSE MouseIdle(w, dist, pb)

\* ------------------------------------------------------------------ frame
\* the largest value state::screenshotInd gets from the button of the GUI, and
\* the largest it gets from calls of screenshot()
MaxScreenshots == 2
MaxScreenshotCalls == 11

\* draw(): the scene is rendered to the default framebuffer and presented
draw == <<"draw", "glfwSwapBuffers">>

\* The conversion %06zu of snprintf: the decimal digits of n, high digit
\* first, with zeros in front up to a width of ScreenshotDigits.
ScreenshotDigits == 6
RECURSIVE digitsOf(_)
digitsOf(n) == IF n < 10 THEN <<n>> ELSE digitsOf(n \div 10) \o <<n % 10>>
RECURSIVE zeroPad(_, _)
zeroPad(ds, width) == IF Len(ds) >= width THEN ds ELSE zeroPad(<<0>> \o ds, width)
\* the name "screenshot_%06zu.png" for an index: the prefix, the digits, the
\* suffix
defaultScreenshotName(ind) ==
  <<"screenshot_">> \o zeroPad(digitsOf(ind), ScreenshotDigits) \o <<".png">>

\* screenshot(filename): renders with draw(false), reads the pixels back and
\* saves them under the name
screenshotNamed(filename) ==
  [written |-> filename, steps |-> <<"screenshot">> \o draw \o <<"saveImage">>]

\* (mutant) the index is not incremented
screenshot_sameIndex(ind) ==
  [screenshotInd |-> ind,
   steps |-> screenshotNamed(defaultScreenshotName(ind)).steps,
   file |-> screenshotNamed(defaultScreenshotName(ind)).written]
\* screenshot(): saves the image under the name of the current index and
\* increments the index
screenshot(ind) ==
  [screenshotInd |-> ind + 1,
   steps |-> screenshotNamed(defaultScreenshotName(ind)).steps,
   file |-> screenshotNamed(defaultScreenshotName(ind)).written]

\* buildPolyscopeGui; pressed: the button "Screenshot" reports a click
buildPolyscopeGui(ind, pressed) ==
  IF pressed
    THEN [screenshotInd |-> screenshot(ind).screenshotInd,
          steps |-> <<"buildPolyscopeGui">> \o screenshot(ind).steps,
          written |-> {screenshot(ind).file}]
    ELSE [screenshotInd |-> ind, steps |-> <<"buildPolyscopeGui">>, written |-> {}]

\* buildUserGui: the callback is called when there is one
buildUserGui(callback) ==
  <<"buildUserGui">> \o (IF callback THEN <<"userCallback">> ELSE <<>>)

\* One iteration of the loop of show(). size is what glfwGetFramebufferSize
\* returns, inp what ImGui reports after glfwPollEvents and NewFrame.
showIteration(w, dist, pb, size, ind, callback, inp) ==
  LET vw1 == [bufferWidth |-> size[1], bufferHeight |-> size[2]]
      m == processMouseEvents(w, dist, pb, vw1, inp)
      g == buildPolyscopeGui(ind, inp.screenshotPressed)
  IN [w |-> m.w, dist |-> m.dist, pickBuffer |-> m.pickBuffer, view |-> vw1,
      screenshotInd |-> g.screenshotInd, written |-> g.written, mouse |-> m,
      steps |-> <<"glfwGetFramebufferSize", "glfwPollEvents", "NewFrame",
                  "processMouseEvents">>
                \o (IF m.dragged THEN <<"processMouseDrag">> ELSE <<>>)
                \o (IF m.picked THEN <<"evaluatePickQuery", "drawPick">> ELSE <<>>)
                \o <<"ShowTestWindow">>
                \o g.steps
                \o <<"buildStructureGui">>
                \o buildUserGui(callback)
                \o <<"buildPickGui">>
                \o draw]

\* ------------------------------------------------------------------ actions
World == [state |-> state, pick |-> pick, heap |-> heap]

NoOp ==
  [op |-> "init", cat |-> "-", name |-> "-", replace |-> FALSE, inUse |-> FALSE,
   errs |-> <<>>, thrown |-> FALSE, ret |-> NullPtr, deleted |-> {}, cleared |-> FALSE,
   created |-> NullPtr, ind |-> 0, doubleClick |-> FALSE, call |-> "-",
   result |-> Zero3, shown |-> FALSE, dangling |-> FALSE,
   captured |-> FALSE, dragging |-> FALSE, released |-> FALSE, dragged |-> FALSE,
   picked |-> FALSE, pos |-> NoPos, at |-> NoPos, reallocated |-> FALSE,
   steps |-> <<>>, decoded |-> 0, ind2 |-> 0, result2 |-> Zero3, file |-> <<>>]

\* the program after construction of its globals
Constructed ==
  /\ state = [lengthScale |-> 4,
              boundingBox |-> <<Zero3, Zero3>>,
              center |-> Zero3,
              structureCategories |-> [c \in StructureTypes |-> EmptyMap],
              pointClouds |-> EmptyMap,
              surfaceMeshes |-> EmptyMap,
              cameraViews |-> EmptyMap,
              raySets |-> EmptyMap]
  /\ options = [exceptionOnError |-> TRUE]
  /\ pick = NoSelection
  /\ heap = EmptyMap
  /\ initialized = FALSE
  /\ window = NoSize
  /\ view = [bufferWidth |-> 0, bufferHeight |-> 0]
  /\ pickBuffer = [currPickBufferWidth |-> 0, currPickBufferHeight |-> 0]
  /\ dragDistSinceLastRelease = 0
  /\ io = [MouseDown |-> FALSE]
  /\ userCallback = FALSE
  /\ screenshotInd = 0
  /\ files = {}

Init ==
  /\ Constructed
  /\ lastOp = NoOp

\* the caller sets options::exceptionOnError
SetExceptionOnError ==
  /\ options' = [options EXCEPT !.exceptionOnError = ~@]
  /\ lastOp' = [NoOp EXCEPT !.op = "setExceptionOnError"]
  /\ UNCHANGED <<state, pick, heap, windowVars>>

\* a call of one of the four register functions, with a payload out of ps
RegisterWith(ps) ==
  \E cat \in StructureTypes, name \in Names, payload \in ps, replace \in BOOLEAN :
    \E r \in {registerStructure(World, cat, name, payload, replace)} :
       /\ r.thrown \/ r.created # NullPtr
       /\ state' = r.w.state
       /\ pick' = r.w.pick
       /\ heap' = r.w.heap
       /\ lastOp' = [NoOp EXCEPT !.op = "register", !.cat = cat, !.name = name,
                       !.replace = replace, !.inUse = r.inUse, !.errs = r.errs,
                       !.thrown = r.thrown, !.deleted = r.deleted,
                       !.cleared = r.cleared, !.created = r.created]
       /\ UNCHANGED <<options, windowVars>>

Register == RegisterWith(Payloads)

Remove ==
  \E name \in Names :
    \E r \in {removeStructure(World, name)} :
       /\ state' = r.w.state
       /\ pick' = r.w.pick
       /\ heap' = r.w.heap
       /\ lastOp' = [NoOp EXCEPT !.op = "remove", !.name = name, !.errs = r.err.errs,
                       !.thrown = r.err.thrown, !.deleted = r.deleted,
                       !.cleared = r.cleared]
       /\ UNCHANGED <<options, windowVars>>

RemoveAll ==
  \E r \in {removeAllStructures(World)} :
     /\ state' = r.w.state
     /\ pick' = r.w.pick
     /\ heap' = r.w.heap
     /\ lastOp' = [NoOp EXCEPT !.op = "removeAll", !.deleted = r.deleted]
     /\ UNCHANGED <<options, windowVars>>

Get ==
  \E cat \in StructureTypes, name \in Names :
    \E r \in {getStructure(state, cat, name)} :
       /\ lastOp' = [NoOp EXCEPT !.op = "get", !.cat = cat, !.name = name,
                       !.errs = r.err.errs, !.thrown = r.err.thrown, !.ret = r.ret]
       /\ UNCHANGED <<state, options, pick, heap, windowVars>>

PickQuery ==
  \E result \in DrawnPixels(state, heap), doubleClick \in BOOLEAN :
    \E r \in {evaluatePickQuery(World, result, doubleClick)} :
       /\ state' = r.w.state
       /\ pick' = r.w.pick
       /\ heap' = r.w.heap
       /\ lastOp' = [NoOp EXCEPT !.op = "pickQuery", !.result = result, !.ind = r.ind,
                       !.doubleClick = doubleClick, !.call = r.call,
                       !.cleared = pick.haveSelection /\ ~r.w.pick.haveSelection]
       /\ UNCHANGED <<options, windowVars>>

BuildPickGui ==
  \E r \in {buildPickGui(pick, heap)} :
     /\ lastOp' = [NoOp EXCEPT !.op = "buildPickGui", !.shown = r.shown,
                     !.ret = r.structure, !.dangling = r.dangling]
     /\ UNCHANGED <<state, options, pick, heap, windowVars>>

\* a call of init()
CallInit ==
  \E r \in {init(initialized, window, view, pickBuffer, InitialSize)} :
     /\ initialized' = r.initialized
     /\ window' = r.window
     /\ view' = r.view
     /\ pickBuffer' = r.pickBuffer
     /\ lastOp' = [NoOp EXCEPT !.op = "initialize", !.errs = r.errs, !.thrown = r.thrown]
     /\ UNCHANGED <<state, options, pick, heap, dragDistSinceLastRelease, io,
                     userCallback, screenshotInd, files>>

\* the user resizes the window
ResizeWindow ==
  /\ initialized
  /\ \E size \in ViewportSizes \ {window} : window' = size
  /\ lastOp' = [NoOp EXCEPT !.op = "resize"]
  /\ UNCHANGED <<state, options, pick, heap, initialized, view, pickBuffer,
                  dragDistSinceLastRelease, io, userCallback, screenshotInd, files>>

\* the caller sets or clears state::userCallback
SetUserCallback ==
  /\ userCallback' = ~userCallback
  /\ lastOp' = [NoOp EXCEPT !.op = "setUserCallback"]
  /\ UNCHANGED <<state, options, pick, heap, initialized, window, view, pickBuffer,
                  dragDistSinceLastRelease, io, screenshotInd, files>>

\* One iteration of the loop of show(), for every input ImGui can report:
\* the button is released only when it was down in the frame before, a drag
\* needs the button held since the frame before, and the button of the GUI
\* reports a click only in a frame in which ImGui has the mouse and the
\* button went up.
ShowFrame ==
  /\ initialized
  /\ \E down \in BOOLEAN, captured \in BOOLEAN :
       \E dragging \in (IF io.MouseDown /\ down THEN BOOLEAN ELSE {FALSE}) :
         \E delta \in (IF dragging /\ ~captured THEN 0 .. MaxDelta ELSE {0}),
            pos \in Positions, scale \in FramebufferScales,
            result \in DrawnPixels(state, heap), doubleClick \in BOOLEAN,
            pressed \in (IF captured /\ io.MouseDown /\ ~down /\ screenshotInd < MaxScreenshots
                           THEN BOOLEAN ELSE {FALSE}) :
           \E r \in {showIteration(World, dragDistSinceLastRelease, pickBuffer, window,
                                    screenshotInd, userCallback,
                                    [WantCaptureMouse |-> captured,
                                     IsMouseDragging |-> dragging,
                                     IsMouseReleased |-> io.MouseDown /\ ~down,
                                     delta |-> delta, pos |-> pos, scale |-> scale,
                                     result |-> result, doubleClick |-> doubleClick,
                                     screenshotPressed |-> pressed])} :
              /\ r.dist <= MaxDrag
              /\ state' = r.w.state
              /\ pick' = r.w.pick
              /\ heap' = r.w.heap
              /\ view' = r.view
              /\ pickBuffer' = r.pickBuffer
              /\ dragDistSinceLastRelease' = r.dist
              /\ screenshotInd' = r.screenshotInd
              /\ files' = files \cup r.written
              /\ io' = [MouseDown |-> down]
              /\ lastOp' = [NoOp EXCEPT !.op = "frame", !.captured = captured,
                              !.dragging = dragging,
                              !.released = io.MouseDown /\ ~down,
                              !.dragged = r.mouse.dragged, !.picked = r.mouse.picked,
                              !.pos = pos, !.at = r.mouse.at, !.reallocated = r.mouse.reallocated,
                              !.steps = r.steps]
              /\ UNCHANGED <<options, initialized, window, userCallback>>

\* the names a caller passes to screenshot(filename): two of its own, and one
\* that has the form of a default name
ExplicitNames == {<<"out.png">>, <<"figure.jpg">>, defaultScreenshotName(1)}

\* a call of screenshot()
CallScreenshot ==
  /\ initialized
  /\ screenshotInd < MaxScreenshotCalls
  /\ \E r \in {screenshot(screenshotInd)} :
       /\ screenshotInd' = r.screenshotInd
       /\ files' = files \cup {r.file}
       /\ lastOp' = [NoOp EXCEPT !.op = "screenshot", !.file = r.file, !.steps = r.steps]
  /\ UNCHANGED <<state, options, pick, heap, initialized, window, view, pickBuffer,
                  dragDistSinceLastRelease, io, userCallback>>

\* a call of screenshot(filename)
CallScreenshotNamed ==
  /\ initialized
  /\ \E filename \in ExplicitNames :
       \E r \in {screenshotNamed(filename)} :
          /\ files' = files \cup {r.written}
          /\ lastOp' = [NoOp EXCEPT !.op = "screenshotNamed", !.file = r.written,
                          !.steps = r.steps]
  /\ UNCHANGED <<state, options, pick, heap, initialized, window, view, pickBuffer,
                  dragDistSinceLastRelease, io, userCallback, screenshotInd>>

\* the indices handed to the codec: the representable ones and a few more
PickIndices == 0 .. (PickRadix * PickRadix * PickRadix + PickRadix)

\* two indices are about to be encoded
InitCodec ==
  /\ Constructed
  /\ \E i \in PickIndices, j \in PickIndices :
       lastOp = [NoOp EXCEPT !.op = "codecInput", !.ind = i, !.ind2 = j]

\* the two indices are encoded, and the colour of the first is decoded again
EncodeDecode ==
  /\ lastOp.op = "codecInput"
  /\ lastOp' = [lastOp EXCEPT !.op = "codec", !.result = indToVec(lastOp.ind),
                  !.decoded = vecToInd(indToVec(lastOp.ind)),
                  !.result2 = indToVec(lastOp.ind2)]
  /\ UNCHANGED <<state, options, pick, heap, windowVars>>

Next ==
  \/ SetExceptionOnError
  \/ Register
  \/ Remove
  \/ RemoveAll
  \/ Get
  \/ PickQuery
  \/ BuildPickGui

Spec == Init /\ [][Next]_vars

\* Only register and remove operations, in either error mode.
NextRegisterRemove ==
  \/ SetExceptionOnError
  \/ Register
  \/ Remove

SpecRegisterRemove == Init /\ [][NextRegisterRemove]_vars

\* The operations that change registry or selection, over structures that all
\* have the same geometry.
RegisterSameGeometry == RegisterWith({[bbox |-> BoxA, ls |-> 0, elems |-> 1]})

NextSameGeometry ==
  \/ SetExceptionOnError
  \/ RegisterSameGeometry
  \/ Remove
  \/ RemoveAll
  \/ PickQuery

SpecSameGeometry == Init /\ [][NextSameGeometry]_vars

\* The operations that change the registry, over structures of different
\* geometry, in either error mode.
NextRegistry ==
  \/ SetExceptionOnError
  \/ Register
  \/ Remove
  \/ RemoveAll

SpecRegistry == Init /\ [][NextRegistry]_vars

\* The operations that recompute the extent, with options::exceptionOnError
\* as constructed.
NextExtent ==
  \/ Register
  \/ Remove
  \/ RemoveAll

SpecExtent == Init /\ [][NextExtent]_vars

\* The calls that can signal a misuse, in either error mode.
NextMisuse ==
  \/ SetExceptionOnError
  \/ CallInit
  \/ Register
  \/ Remove
  \/ Get

SpecMisuse == Init /\ [][NextMisuse]_vars

\* The window: init, then frames of show() while the user moves the mouse,
\* resizes the window and sets the callback.
NextShow ==
  \/ CallInit
  \/ ResizeWindow
  \/ SetUserCallback
  \/ ShowFrame

SpecShow == Init /\ [][NextShow]_vars

\* Screenshots taken by calls of the two screenshot functions, after init.
NextScreenshot ==
  \/ CallInit
  \/ CallScreenshot
  \/ CallScreenshotNamed

SpecScreenshot == Init /\ [][NextScreenshot]_vars

\* The colour codec applied to every pair of indices.
SpecCodec == InitCodec /\ [][EncodeDecode]_vars

\* ------------------------------------------------------- reading the registry
Typed(st, c) == st[TypedField(c)]
\* the categories whose sub-map of the category map holds the name
CategoriesOf(st, n) == { c \in StructureTypes : Has(st.structureCategories[c], n) }
\* the categories whose typed map holds the name
TypedCategoriesOf(st, n) == { c \in StructureTypes : Has(Typed(st, c), n) }
\* the structures that the maps hold under the name
HeldUnder(st, n) ==
  { Typed(st, c)[n] : c \in TypedCategoriesOf(st, n) }
    \cup { st.structureCategories[c][n] : c \in CategoriesOf(st, n) }
\* the structures that the typed maps hold
TypedPtrs(st) == UNION { { Typed(st, c)[n] : n \in DOMAIN Typed(st, c) } : c \in StructureTypes }
NameInUse(st, n) == CategoriesOf(st, n) # {}
MinOf(S) == CHOOSE x \in S : \A y \in S : x <= y
MaxOf(S) == CHOOSE x \in S : \A y \in S : x >= y

\* ------------------------------------------------------------------ C1
\* C1: after every register or remove operation, no name is held by more than
\* one live structure, and every name is in at most one category, of the
\* category map and of the typed maps alike; the live structures are the
\* ones the maps hold, one name each.
C1_NameInOneCategory ==
  /\ \A n \in Names :
       /\ Cardinality(HeldUnder(state, n)) <= 1
       /\ Cardinality(CategoriesOf(state, n)) <= 1
       /\ Cardinality(TypedCategoriesOf(state, n)) <= 1
       /\ CategoriesOf(state, n) = TypedCategoriesOf(state, n)
  /\ DOMAIN heap = CategoryPtrs(state)
  /\ DOMAIN heap = TypedPtrs(state)
  /\ \A n \in Names, m \in Names : n # m => HeldUnder(state, n) \cap HeldUnder(state, m) = {}

\* a register that found its name in use and went on, with both names
\* registered, in two categories
C1_Witness ==
  /\ lastOp.op = "register" /\ lastOp.inUse /\ ~lastOp.thrown
  /\ \A n \in Names : Cardinality(CategoriesOf(state, n)) = 1
  /\ CategoriesOf(state, "a") # CategoriesOf(state, "b")

\* ------------------------------------------------------------------ C2
\* C2: a register of a name that is in use, with replaceIfPresent = false,
\* signals an error and changes nothing: registry, structures, extent and
\* selection are as before, in both error modes.
C2_DuplicateLeavesRegistryUnchanged ==
  [][(lastOp'.op = "register" /\ ~lastOp'.replace /\ NameInUse(state, lastOp'.name))
       => /\ lastOp'.errs # <<>>
          /\ state' = state
          /\ heap' = heap
          /\ pick' = pick]_vars

\* ------------------------------------------------------------------ C3
\* C3: whenever there is a selection, the selected structure is allocated and
\* is an entry of the category map; the selection panel never dereferences a
\* destroyed structure.
C3_SelectionIsLive ==
  /\ pick.haveSelection =>
       /\ pick.structure \in DOMAIN heap
       /\ pick.structure \in CategoryPtrs(state)
  /\ lastOp.op = "buildPickGui" => ~lastOp.dangling

\* the selected structure was just removed, and the selection went with it
C3_Witness ==
  /\ lastOp.op \in {"remove", "register"}
  /\ lastOp.cleared
  /\ lastOp.deleted # {}
  /\ ~pick.haveSelection

\* ------------------------------------------------------------------ C4
\* C4: after removeAll every structure is destroyed, the category map and the
\* four typed maps are empty, every get signals not found, and there is no
\* selection.
C4_RemoveAllEmptiesRegistry ==
  lastOp.op = "removeAll" =>
    /\ DOMAIN heap = {}
    /\ \A c \in StructureTypes :
         /\ DOMAIN state.structureCategories[c] = {}
         /\ DOMAIN Typed(state, c) = {}
         /\ \A n \in Names : /\ getStructure(state, c, n).ret = NullPtr
                             /\ getStructure(state, c, n).err.errs # <<>>
    /\ ~pick.haveSelection

\* ------------------------------------------------------------------ C5
\* the bounding box folded over a set of structures, and its midpoint
BoxOver(hp, ps) ==
  << <<MinOf({hp[p].bbox[1][1] : p \in ps}), MinOf({hp[p].bbox[1][2] : p \in ps}),
       MinOf({hp[p].bbox[1][3] : p \in ps})>>,
     <<MaxOf({hp[p].bbox[2][1] : p \in ps}), MaxOf({hp[p].bbox[2][2] : p \in ps}),
       MaxOf({hp[p].bbox[2][3] : p \in ps})>> >>
Midpoint(box) == VHalf(VAdd(box[1], box[2]))

\* C5: when register, remove or removeAll has returned and some structure is
\* live, the stored bounding box is the componentwise min / max over the boxes
\* of exactly the live structures, and the stored center is its midpoint.
C5_ExtentOverLiveStructures ==
  (lastOp.op \in {"register", "remove", "removeAll"} /\ ~lastOp.thrown /\ DOMAIN heap # {})
    => /\ state.boundingBox = BoxOver(heap, DOMAIN heap)
       /\ state.center = Midpoint(state.boundingBox)

\* ------------------------------------------------------------------ C6
\* C6: a register with replaceIfPresent = true of a name that is in use
\* destroys the old structure and takes it out of the maps, clears a
\* selection on it, leaves the name in the requested category only, mapped to
\* the new structure, and recomputes the extent.
C6_ReplaceEvictsOldStructure ==
  [][(lastOp'.op = "register" /\ lastOp'.replace /\ NameInUse(state, lastOp'.name))
       => LET n == lastOp'.name
              cat == lastOp'.cat
              olds == { state.structureCategories[c][n] : c \in CategoriesOf(state, n) }
          IN /\ ~lastOp'.thrown
             /\ olds \subseteq lastOp'.deleted
             /\ \A c \in StructureTypes \ {cat} :
                  ~Has(state'.structureCategories[c], n) /\ ~Has(Typed(state', c), n)
             /\ (pick.haveSelection /\ pick.structure \in olds) => ~pick'.haveSelection
             /\ lastOp'.created \in DOMAIN heap'
             /\ Has(Typed(state', cat), n) /\ Typed(state', cat)[n] = lastOp'.created
             /\ Has(state'.structureCategories[cat], n)
             /\ state'.structureCategories[cat][n] = lastOp'.created
             /\ state'.boundingBox = BoxOver(heap', CategoryPtrs(state'))
             /\ state'.center = Midpoint(state'.boundingBox)]_vars

\* ------------------------------------------------------------------ C7
\* C7: remove of a registered name takes exactly that structure out: the name
\* is gone from the typed map and the category map of its category, every
\* other entry is as before and still allocated, and a selection on another
\* structure is as before.
C7_RemoveTakesExactlyOne ==
  [][(lastOp'.op = "remove" /\ NameInUse(state, lastOp'.name))
       => LET n == lastOp'.name
          IN /\ \A c \in CategoriesOf(state, n) :
                  /\ ~Has(state'.structureCategories[c], n)
                  /\ ~Has(Typed(state', c), n)
                  /\ state.structureCategories[c][n] \in lastOp'.deleted
             /\ \A c \in StructureTypes : \A m \in Names \ {n} :
                  /\ Has(state.structureCategories[c], m) =>
                       /\ Has(state'.structureCategories[c], m)
                       /\ state'.structureCategories[c][m] = state.structureCategories[c][m]
                       /\ state.structureCategories[c][m] \in DOMAIN heap'
                       /\ heap'[state.structureCategories[c][m]]
                            = heap[state.structureCategories[c][m]]
                  /\ Has(state'.structureCategories[c], m) => Has(state.structureCategories[c], m)
                  /\ Has(Typed(state, c), m) <=> Has(Typed(state', c), m)
                  /\ Has(Typed(state, c), m) => Typed(state', c)[m] = Typed(state, c)[m]
             /\ (pick.haveSelection /\ pick.structure \notin lastOp'.deleted) => pick' = pick]_vars

\* ------------------------------------------------------------------ C8
\* C8: remove of a name that no map of the registry holds signals "not
\* found" (by an exception if exceptionOnError, by a message otherwise) and
\* leaves registry, extent, structures and selection as they were.
C8_RemoveUnknownSignalsAndKeeps ==
  [][(lastOp'.op = "remove"
        /\ CategoriesOf(state, lastOp'.name) = {}
        /\ TypedCategoriesOf(state, lastOp'.name) = {})
       => /\ lastOp'.errs = <<"noStructureToRemove">>
          /\ lastOp'.thrown = options.exceptionOnError
          /\ lastOp'.deleted = {}
          /\ state' = state
          /\ heap' = heap
          /\ pick' = pick]_vars

\* a remove that signalled by a message and went on, beside a registered
\* structure and a selection
C8_Witness ==
  /\ lastOp.op = "remove"
  /\ lastOp.errs = <<"noStructureToRemove">>
  /\ ~lastOp.thrown
  /\ CategoryPtrs(state) # {}
  /\ pick.haveSelection

\* ------------------------------------------------------------------ C9
\* C9: get returns the structure registered under the name in the category;
\* when there is none it signals "not found" and, when that does not throw,
\* returns null.  The lookup changes no map, extent or selection.
C9_GetReturnsRegisteredOrSignals ==
  [][lastOp'.op = "get"
       => LET c == lastOp'.cat
              n == lastOp'.name
          IN /\ state' = state /\ heap' = heap /\ pick' = pick
             /\ IF Has(state.structureCategories[c], n)
                  THEN /\ lastOp'.errs = <<>>
                       /\ lastOp'.ret = state.structureCategories[c][n]
                       /\ lastOp'.ret \in DOMAIN heap
                  ELSE /\ lastOp'.errs = <<"notRegistered">>
                       /\ lastOp'.thrown = options.exceptionOnError
                       /\ lastOp'.ret = NullPtr]_vars

\* ------------------------------------------------------------------ C10
\* C10: a pick query that reads back index 0 leaves no selection, whatever
\* there was before; one that reads back another index hands it, with the
\* double-click flag, to the selection setter and does not reset; and a step
\* that goes from no selection to a selection is a pick query with a non-zero
\* index.
C10_PickQueryDecides ==
  [][/\ lastOp'.op = "pickQuery" =>
          /\ lastOp'.ind = vecToInd(lastOp'.result)
          /\ lastOp'.ind = 0 => (pick' = NoSelection /\ lastOp'.call = "resetPick")
          /\ lastOp'.ind # 0 =>
               /\ lastOp'.call = "setCurrentPickElement"
               /\ pick' = setCurrentPickElement(pick, heap, lastOp'.ind, lastOp'.doubleClick)
               /\ pick'.haveSelection
               /\ pick'.structure = pickOwner(lastOp'.ind)
     /\ (~pick.haveSelection /\ pick'.haveSelection) =>
          (lastOp'.op = "pickQuery" /\ lastOp'.ind # 0)]_vars

\* a pick query that read back index 0 while there was a selection
C10_Witness ==
  /\ lastOp.op = "pickQuery"
  /\ lastOp.ind = 0
  /\ lastOp.cleared
  /\ ~pick.haveSelection
\* ------------------------------------------------------------------ C11
\* the box [(-1,-1,-1),(1,1,1)] and the squared norm of its diagonal
UnitBox == <<VNeg(Ones), Ones>>
UnitBoxScale == norm2(VSub(Ones, VNeg(Ones)))
\* remove or removeAll has run updateStructureExtents
ExtentsRecomputedByRemoval ==
  \/ lastOp.op = "remove" /\ lastOp.deleted # {}
  \/ lastOp.op = "removeAll"

\* C11: when remove (of the last structure) or removeAll has returned and no
\* structure is live, the bounding box is [(-1,-1,-1),(1,1,1)], the center is
\* (0,0,0) and the length scale is the norm of the diagonal of that box,
\* a finite positive constant, whatever was registered before.
C11_EmptyRegistryDefaultExtent ==
  (ExtentsRecomputedByRemoval /\ DOMAIN heap = {})
    => /\ state.boundingBox = UnitBox
       /\ state.center = Zero3
       /\ state.lengthScale = UnitBoxScale
       /\ 0 < UnitBoxScale /\ UnitBoxScale < Infinity

\* the last structure has been removed and the extent recomputed
C11_Witness ==
  /\ lastOp.op = "remove"
  /\ lastOp.deleted # {}
  /\ DOMAIN heap = {}
  /\ state.lengthScale = UnitBoxScale
  /\ state.boundingBox = UnitBox

\* ------------------------------------------------------------------ C12
\* register, remove or removeAll has changed the registry
RegistryMutated ==
  \/ lastOp.op = "register" /\ ~lastOp.thrown
  \/ lastOp.op = "remove" /\ lastOp.deleted # {}
  \/ lastOp.op = "removeAll"
\* the largest length scale a live structure reports, 0 when none is live
MaxLiveLengthScale == MaxOf({ heap[p].ls : p \in DOMAIN heap } \cup {0})

\* C12: when register, remove or removeAll has changed the registry, the
\* global length scale is the maximum of the length scales of the live
\* structures, and exactly when that maximum is 0 it is the norm of the
\* diagonal of the stored global bounding box.
C12_LengthScaleIsMaxOrDiagonal ==
  RegistryMutated
    => state.lengthScale =
         IF MaxLiveLengthScale = 0
           THEN norm2(VSub(state.boundingBox[2], state.boundingBox[1]))
           ELSE MaxLiveLengthScale

\* ------------------------------------------------------------------ C13
\* C13: a call that signals a misuse (name in use without replace, get or
\* remove of a name that is not registered, second init) raises exactly when
\* options::exceptionOnError is set and otherwise prints and returns, and in
\* both modes it leaves registry, structures and extent as they were.
C13_MisuseFollowsFlagAndKeepsState ==
  [][ lastOp'.errs # <<>>
        => /\ lastOp'.thrown = options.exceptionOnError
           /\ state' = state
           /\ heap' = heap ]_vars

C17_ReleaseResetsDragDistance ==
  [][ (lastOp'.op = "frame" /\ lastOp'.released)
        => dragDistSinceLastRelease' = 0 ]_vars

\* ------------------------------------------------------------------ C15
\* C15: for every representable index i the colour of i decodes to i, two
\* representable indices with the same colour are the same index, and index 0
\* has the colour (0,0,0), which decodes to 0.
C15_CodecRoundTrips ==
  lastOp.op = "codec"
    => /\ Representable(lastOp.ind) => lastOp.decoded = lastOp.ind
       /\ (Representable(lastOp.ind) /\ Representable(lastOp.ind2)
             /\ lastOp.result = lastOp.result2) => lastOp.ind = lastOp.ind2
       /\ lastOp.ind = 0 => (lastOp.result = Zero3 /\ lastOp.decoded = 0)
       /\ vecToInd(Zero3) = 0

\* the largest representable index went through the codec, next to another
C15_Witness ==
  /\ lastOp.op = "codec"
  /\ Representable(lastOp.ind) /\ ~Representable(lastOp.ind + 1)
  /\ lastOp.decoded = lastOp.ind
  /\ lastOp.result[3] # 0
  /\ Representable(lastOp.ind2) /\ lastOp.ind2 # lastOp.ind

\* ------------------------------------------------------------------ C16
\* the selection of a world is on a structure that has been destroyed
SelectedDestroyed(w) == w.pick.haveSelection /\ w.pick.structure \notin DOMAIN w.heap
\* the worlds the operation that just ran went through, statement by statement
StepsOfLastOp ==
  IF lastOp'.op = "removeAll" THEN removeAllStructuresSteps(World)
  ELSE IF lastOp'.op = "remove" \/ (lastOp'.op = "register" /\ lastOp'.deleted # {})
    THEN removeStructureSteps(World, lastOp'.name)
  ELSE <<World>>
\* a remove or removeAll ends in the world its last statement leaves
StepsEndWhereOperationEnds ==
  [][ lastOp'.op \in {"remove", "removeAll"}
        => LET last == StepsOfLastOp[Len(StepsOfLastOp)]
           IN state' = last.state /\ pick' = last.pick /\ heap' = last.heap ]_vars

\* C16: remove, register with replacement and removeAll clear a selection
\* before they destroy the structure it is on: after no statement of the
\* operation is the selection on a structure that has been destroyed.
C16_SelectionClearedBeforeDestroy ==
  [][ lastOp'.op \in {"remove", "register", "removeAll"}
        => \A k \in 1 .. Len(StepsOfLastOp) : ~SelectedDestroyed(StepsOfLastOp[k]) ]_vars

\* ------------------------------------------------------------------ C18
\* the size the pick renderbuffers were allocated with is that of the viewport
PickBufferFits(pb, vw) ==
  /\ pb.currPickBufferWidth = vw.bufferWidth
  /\ pb.currPickBufferHeight = vw.bufferHeight

\* C18: after init, over all resizes and frames, a pick query deletes and
\* allocates the pick renderbuffers exactly when the remembered size is not
\* the size of the viewport at that query, after a pick query the remembered
\* size is the size of the viewport, and nothing but a pick query touches
\* the renderbuffers.
C18_ReallocateExactlyOnSizeChange ==
  [][ /\ (lastOp'.op = "frame" /\ lastOp'.picked)
           => /\ lastOp'.reallocated <=> ~PickBufferFits(pickBuffer, view')
              /\ PickBufferFits(pickBuffer', view')
              /\ ~lastOp'.reallocated => pickBuffer' = pickBuffer
      /\ (initialized /\ ~(lastOp'.op = "frame" /\ lastOp'.picked))
           => (pickBuffer' = pickBuffer /\ ~lastOp'.reallocated) ]_vars

\* a pick query after a resize has allocated the renderbuffers again
C18_Witness ==
  /\ lastOp.op = "frame"
  /\ lastOp.picked
  /\ lastOp.reallocated
  /\ window # InitialSize
  /\ PickBufferFits(pickBuffer, view)

\* ------------------------------------------------------------------ C19
\* how often a step occurs in a frame
Count(steps, step) == Cardinality({ k \in 1 .. Len(steps) : steps[k] = step })
IsFrameStep(step) ==
  step \in {"glfwPollEvents", "processMouseEvents", "buildPolyscopeGui",
            "buildStructureGui", "buildUserGui", "buildPickGui"}
\* input and panels are handled in the order of the loop of show()
StepsInOrder(steps) ==
  SelectSeq(steps, IsFrameStep) =
    <<"glfwPollEvents", "processMouseEvents", "buildPolyscopeGui", "buildStructureGui",
      "buildUserGui", "buildPickGui">>
\* the frame ends with the draw to the main framebuffer and the swap
EndsWithDraw(steps) ==
  /\ Len(steps) >= 2
  /\ steps[Len(steps) - 1] = "draw"
  /\ steps[Len(steps)] = "glfwSwapBuffers"
\* the callback runs inside buildUserGui, at most once and only when set
CallbackOnceIfSet(steps) ==
  /\ Count(steps, "userCallback") <= 1
  /\ Count(steps, "userCallback") = 1 => userCallback
\* the offscreen pick pass runs only with a pick query
PickPassOnlyOnQuery(steps) ==
  Count(steps, "drawPick") > 0 => (lastOp.picked /\ Count(steps, "evaluatePickQuery") = 1)

\* C19: every frame polls the input, processes the mouse (with the pick
\* query, if any), builds the panels for the global options, the structures,
\* the user callback and the selection in this order, and then draws to the
\* main framebuffer and presents; the main draw happens exactly once in the
\* frame, the callback at most once and only when set, the offscreen pick
\* pass only in a frame with a pick query.
C19_FrameStepsInOrderDrawOnce ==
  lastOp.op = "frame"
    => /\ StepsInOrder(lastOp.steps)
       /\ EndsWithDraw(lastOp.steps)
       /\ Count(lastOp.steps, "draw") = 1
       /\ CallbackOnceIfSet(lastOp.steps)
       /\ PickPassOnlyOnQuery(lastOp.steps)

\* ------------------------------------------------------------------ C20
\* C20: after every sequence of register, remove and removeAll, for each of
\* the four categories the typed map and the sub-map of the category map hold
\* the same names, and every name maps to the same structure in both.
C20_TypedAndCategoryMapsAgree ==
  \A c \in StructureTypes :
     /\ DOMAIN Typed(state, c) = DOMAIN state.structureCategories[c]
     /\ \A n \in DOMAIN Typed(state, c) : Typed(state, c)[n] = state.structureCategories[c][n]

\* ------------------------------------------------------------------ C21
\* the number a sequence of decimal digits, high digit first, stands for
RECURSIVE DigitsValue(_)
DigitsValue(ds) ==
  IF ds = <<>> THEN 0
  ELSE 10 * DigitsValue(SubSeq(ds, 1, Len(ds) - 1)) + ds[Len(ds)]
\* name is screenshot_NNNNNN.png with NNNNNN the number n in six digits
IsDefaultNameOf(name, n) ==
  /\ Len(name) = ScreenshotDigits + 2
  /\ name[1] = "screenshot_"
  /\ name[Len(name)] = ".png"
  /\ \A k \in 2 .. (Len(name) - 1) : name[k] \in 0 .. 9
  /\ DigitsValue(SubSeq(name, 2, Len(name) - 1)) = n

\* C21: state::screenshotInd starts at 0; a call of screenshot() writes
\* screenshot_NNNNNN.png with NNNNNN the index before the call in six digits
\* with leading zeros, a name no earlier call of screenshot() wrote, and
\* increments the index by 1, so the k-th call writes the number k-1; a call
\* of screenshot(filename) writes under the given name and leaves the index
\* as it is, and so does every other step.
C21_ScreenshotCounterNamesFiles ==
  /\ screenshotInd = 0
  /\ [][ /\ (lastOp'.op = "screenshot")
              => (/\ screenshotInd' = screenshotInd + 1
                  /\ IsDefaultNameOf(lastOp'.file, screenshotInd)
                  /\ lastOp'.file \in files'
                  /\ \A i \in 0 .. (screenshotInd - 1) :
                        ~IsDefaultNameOf(lastOp'.file, i))
         /\ (lastOp'.op = "screenshotNamed")
              => (/\ screenshotInd' = screenshotInd
                  /\ lastOp'.file \in ExplicitNames
                  /\ lastOp'.file \in files')
         /\ (lastOp'.op # "screenshot") => (screenshotInd' = screenshotInd) ]_vars

\* the eleventh call of screenshot() has written number 10, after a call with
\* a name of the caller
C21_Witness ==
  /\ lastOp.op = "screenshot"
  /\ screenshotInd = 11
  /\ lastOp.file = <<"screenshot_", 0, 0, 0, 0, 1, 0, ".png">>
  /\ <<"out.png">> \in files
====
